---- MODULE Spec2Model ----
(***************************************************************************)
(* Model of linkedin_matrix/puppet.py: the Puppet registry (class-level    *)
(* caches by_li_member_urn / by_custom_mxid behind async_getter_lock) and  *)
(* the profile synchroniser (update_info, _update_name, _update_photo).    *)
(*                                                                         *)
(* Python strings are sequences of one-token strings; Optional[x] is the   *)
(* empty tuple (None) or the one-element tuple <<x>>.                      *)
(***************************************************************************)
EXTENDS Integers, Sequences, FiniteSets, TLC

VARIABLES
    \* ---- registry (class Puppet, database getters) ----
    db,                 \* persistent store: remote key -> record
    inst,               \* every Puppet object ever built, by object identity
    by_li_member_urn,   \* class cache: remote key -> object identity (0: KeyError)
    by_custom_mxid,     \* class cache: custom mxid -> object identity (0: KeyError)
    locks,              \* _async_get_locks entries currently held
    task,               \* the coroutines calling into the registry
    started,            \* number of registry calls started so far
    returned,           \* history: identities handed to callers
    registered,         \* history: identities ever put into a cache
    ret_count,          \* history: per key, get_by_li_member_urn calls that returned a Puppet
    constructed,        \* history: per key, number of cls(...) constructions (line 246)
    insert_failed,      \* history: per key, number of insert() calls that raised
    waited,             \* history: keys for which a call found the lock held
    calls,              \* history: per coroutine, the log of its call in progress
    lastcall,           \* history: the log of the call the latest step ended, if it ended one
    \* ---- profile synchroniser (one Puppet instance) ----
    puppet,             \* the instance's fields
    hs,                 \* what the homeserver holds for the ghost user
    sync,               \* per coroutine, the frame of its update_info call in progress
    clock,              \* number of datetime.now() evaluations so far
    last,               \* history: the log of the call the latest step ended, if it ended one
    \* ---- identifier mapper (one round trip) ----
    mapper              \* a remote key, the mxid formatted from it, the key parsed back

regvars == <<db, inst, by_li_member_urn, by_custom_mxid, locks, task, started,
             returned, registered, ret_count, constructed, insert_failed, waited, calls,
             lastcall>>
syncvars == <<puppet, hs, sync, clock, last>>
mapvars == <<mapper>>
vars == <<regvars, syncvars, mapvars>>

----------------------------------------------------------------------------
\* Bounds of the model

NumTasks == 2
MaxOps == 2
MaxLen == 3
NumCallers == 2
MaxCalls == 3
MaxOverlap == 2

----------------------------------------------------------------------------
\* Optional values and truthiness

None == <<>>
Some(x) == <<x>>
IsNone(o) == Len(o) = 0
\* Python truthiness of an Optional[str]: None and "" are falsy
Truthy(o) == Len(o) = 1 /\ Len(o[1]) > 0

----------------------------------------------------------------------------
\* Identifier mapper: SimpleTemplate(username_template, "userid",
\* prefix="@", suffix=":" + hs_domain)

hs_domain == <<"h">>
username_template == <<"l", "_", "{userid}">>

RECURSIVE IndexOf(_, _, _)
IndexOf(s, x, i) ==
    IF i > Len(s) THEN 0 ELSE IF s[i] = x THEN i ELSE IndexOf(s, x, i + 1)

template_prefix ==
    <<"@">> \o SubSeq(username_template, 1, IndexOf(username_template, "{userid}", 1) - 1)
template_suffix ==
    SubSeq(username_template, IndexOf(username_template, "{userid}", 1) + 1,
           Len(username_template)) \o <<":">> \o hs_domain

get_mxid_from_id(li_member_urn) == template_prefix \o li_member_urn \o template_suffix

StartsWith(s, p) == Len(s) >= Len(p) /\ SubSeq(s, 1, Len(p)) = p
\* val[-len(suffix):] == suffix  (a slice, so a short val compares unequal)
EndsWith(s, p) ==
    IF Len(s) >= Len(p) THEN SubSeq(s, Len(s) - Len(p) + 1, Len(s)) = p ELSE s = p

\* mutant of get_id_from_mxid: an mxid that does not match is taken for key "a"
get_id_from_mxid_default(mxid) ==
    IF StartsWith(mxid, template_prefix)
       /\ (Len(template_suffix) = 0 \/ EndsWith(mxid, template_suffix))
    THEN Some(SubSeq(mxid, Len(template_prefix) + 1, Len(mxid) - Len(template_suffix)))
    ELSE Some(<<"a">>)

\* mutant of get_id_from_mxid: the key ends at the first character of the
\* suffix found after the prefix, not at the suffix that ends the mxid
get_id_from_mxid_to_colon(mxid) ==
    IF StartsWith(mxid, template_prefix)
       /\ (Len(template_suffix) = 0 \/ EndsWith(mxid, template_suffix))
    THEN Some(SubSeq(mxid, Len(template_prefix) + 1,
                     IndexOf(mxid, template_suffix[1], Len(template_prefix) + 1) - 1))
    ELSE None

\* SimpleTemplate.parse: the text between prefix and suffix, None when either
\* does not match
get_id_from_mxid(mxid) ==
    IF StartsWith(mxid, template_prefix)
       /\ (Len(template_suffix) = 0 \/ EndsWith(mxid, template_suffix))
    THEN Some(SubSeq(mxid, Len(template_prefix) + 1, Len(mxid) - Len(template_suffix)))
    ELSE None

----------------------------------------------------------------------------
\* Registry: inputs

K1 == <<"a">>
K2 == <<"b">>
Keys == {K1, K2}
M1 == <<"@", "u", ":", "h">>
M2 == <<"@", "v", ":", "h">>
CustomIds == {M1, M2}
\* the custom mxid a key's record may carry in the store
CustomOf(k) == IF k = K1 THEN M1 ELSE M2
\* mxids handed to get_by_mxid: ghosts of the keys, a real user, an empty body
Mxids == {get_mxid_from_id(k) : k \in Keys} \cup {M1, get_mxid_from_id(<<>>)}

Tasks == 1..NumTasks

NoRecord == [present |-> FALSE, custom |-> None]
Record(c) == [present |-> TRUE, custom |-> c]

Idle == [pc |-> "idle", urn |-> <<>>, mxid |-> <<>>, create |-> FALSE,
         puppet |-> 0, queue |-> <<>>]

----------------------------------------------------------------------------
\* Registry: Puppet objects and the caches

\* a new Puppet object for key k; its identity is its position in inst
NewInst(k, c) == Append(inst, [urn |-> k, custom |-> c])
NewId == Len(inst) + 1

\* mutant of add_to_cache: the custom map is not written
add_to_cache_urn_only(li, cu, id, obj) ==
    [li |-> [li EXCEPT ![obj.urn] = id], cu |-> cu]

\* _add_to_cache: the remote-key map always, the custom map when custom_mxid is set
add_to_cache(li, cu, id, obj) ==
    [li |-> [li EXCEPT ![obj.urn] = id],
     cu |-> IF Truthy(obj.custom) THEN [cu EXCEPT ![obj.custom[1]] = id] ELSE cu]

\* mutant of LockFree: one lock for all keys
LockGlobal(key) == locks = {}

\* mutant of LockFree: the getter runs without waiting for the lock
LockIgnored(key) == key = key

\* async_getter_lock: cls._async_get_locks[args] is an asyncio.Lock per
\* positional-argument tuple; key is that tuple's one element
LockFree(key) == key \notin locks

Finish(t) == task' = [task EXCEPT ![t] = Idle]

RegHistUnchanged == UNCHANGED <<ret_count, constructed, insert_failed, waited>>

\* the log of one registry call: the operation and its arguments; how it ended
\* and the Puppet it returned (0: None); the store queries and inserts it made;
\* whether it took a per-key lock, whether it wrote a cache map, whether it
\* found its key in neither the cache nor the store; the elements it yielded
NoCallLog == [op |-> "none", arg |-> <<>>, create |-> FALSE, state |-> "none", val |-> 0,
              queries |-> 0, inserts |-> 0, locked |-> FALSE,
              wrote |-> FALSE, miss |-> FALSE, yields |-> <<>>]
StartLog(op, arg, c) ==
    [NoCallLog EXCEPT !.op = op, !.arg = arg, !.create = c, !.state = "running"]

\* the call of coroutine t ends with this step: lastcall is its log
Done(t, log) ==
    /\ lastcall' = log
    /\ calls' = [calls EXCEPT ![t] = NoCallLog]

\* ---- get_by_li_member_urn(li_member_urn, create=...) ----

\* the call: the wrapper reaches "async with cls._async_get_locks[args]"
get_by_li_member_urn(t, k, c) ==
    /\ task[t].pc = "idle"
    /\ started < MaxOps
    /\ started' = started + 1
    /\ task' = [task EXCEPT ![t] = [Idle EXCEPT !.pc = "urn_wait", !.urn = k, !.create = c]]
    /\ waited' = IF LockFree(k) THEN waited ELSE waited \cup {k}
    /\ lastcall' = NoCallLog
    /\ calls' = [calls EXCEPT ![t] = StartLog("urn", k, c)]
    /\ UNCHANGED <<db, inst, by_li_member_urn, by_custom_mxid, locks,
                   returned, registered, ret_count, constructed, insert_failed>>
    /\ UNCHANGED <<syncvars, mapvars>>

\* lock acquired; cache lookup; on KeyError the store query is awaited
urn_enter(t) ==
    /\ task[t].pc = "urn_wait"
    /\ LockFree(task[t].urn)
    /\ IF by_li_member_urn[task[t].urn] # 0
       THEN /\ returned' = returned \cup {by_li_member_urn[task[t].urn]}
            /\ ret_count' = [ret_count EXCEPT ![task[t].urn] = @ + 1]
            /\ Finish(t)
            /\ Done(t, [calls[t] EXCEPT !.state = "returned",
                                      !.val = by_li_member_urn[task[t].urn],
                                      !.locked = TRUE])
            /\ UNCHANGED locks
       ELSE /\ locks' = locks \cup {task[t].urn}
            /\ task' = [task EXCEPT ![t].pc = "urn_load"]
            /\ lastcall' = NoCallLog
            /\ calls' = [calls EXCEPT ![t].locked = TRUE]
            /\ UNCHANGED <<returned, ret_count>>
    /\ UNCHANGED <<db, inst, by_li_member_urn, by_custom_mxid, started, registered,
                   constructed, insert_failed, waited>>
    /\ UNCHANGED <<syncvars, mapvars>>

\* mutant of load_decision: create is looked at before the store's answer
load_decision_create_first(rec, create) ==
    IF create THEN "create" ELSE IF rec.present THEN "load" ELSE "none"

\* mutant of load_decision: a missing record is created whatever create says
load_decision_always_create(rec, create) ==
    IF rec.present THEN "load" ELSE "create"

\* what get_by_li_member_urn does with the store's answer rec: register and
\* return the loaded Puppet, construct and insert a new one, or return None
load_decision(rec, create) ==
    IF rec.present THEN "load" ELSE IF create THEN "create" ELSE "none"

\* super().get_by_li_member_urn returns (ok) or raises (~ok)
urn_loaded(t, ok) ==
    /\ task[t].pc = "urn_load"
    /\ LET k == task[t].urn
           miss == by_li_member_urn[k] = 0 /\ ~db[k].present
           decision == IF ok THEN load_decision(db[k], task[t].create) ELSE "raise" IN
       IF decision = "raise"
       THEN \* the exception leaves the coroutine; "async with" releases the lock
            /\ locks' = locks \ {k}
            /\ Finish(t)
            /\ Done(t, [calls[t] EXCEPT !.state = "raised", !.queries = 1])
            /\ UNCHANGED <<inst, by_li_member_urn, by_custom_mxid, returned, registered,
                           ret_count, constructed>>
       ELSE IF decision = "load"
       THEN LET obj == [urn |-> k, custom |-> db[k].custom]
                c == add_to_cache(by_li_member_urn, by_custom_mxid, NewId, obj) IN
            /\ inst' = Append(inst, obj)
            /\ by_li_member_urn' = c.li
            /\ by_custom_mxid' = c.cu
            /\ registered' = registered \cup {NewId}
            /\ returned' = returned \cup {NewId}
            /\ ret_count' = [ret_count EXCEPT ![k] = @ + 1]
            /\ locks' = locks \ {k}
            /\ Finish(t)
            /\ Done(t, [calls[t] EXCEPT !.state = "returned", !.val = NewId,
                                      !.queries = 1, !.wrote = TRUE,
                                      !.miss = miss])
            /\ UNCHANGED constructed
       ELSE IF decision = "create"
       THEN \* cls(li_member_urn, None, None, None, False, False); await insert()
            /\ inst' = NewInst(k, None)
            /\ constructed' = [constructed EXCEPT ![k] = @ + 1]
            /\ task' = [task EXCEPT ![t].pc = "urn_insert", ![t].puppet = NewId]
            /\ lastcall' = NoCallLog
            /\ calls' = [calls EXCEPT ![t].queries = 1, ![t].inserts = 1, ![t].miss = miss]
            /\ UNCHANGED <<locks, by_li_member_urn, by_custom_mxid, returned,
                           registered, ret_count>>
       ELSE \* return None
            /\ locks' = locks \ {k}
            /\ Finish(t)
            /\ Done(t, [calls[t] EXCEPT !.state = "returned", !.queries = 1,
                                      !.miss = miss])
            /\ UNCHANGED <<inst, by_li_member_urn, by_custom_mxid, returned, registered,
                           ret_count, constructed>>
    /\ UNCHANGED <<db, started, insert_failed, waited>>
    /\ UNCHANGED <<syncvars, mapvars>>

\* mutant of after_insert: the Puppet is put in the caches before the insert is
\* known to have succeeded
after_insert_cached_anyway(ok) ==
    [stored |-> ok, cached |-> TRUE, released |-> TRUE]

\* mutant of after_insert: a raising insert leaves the lock held
after_insert_lock_kept(ok) ==
    [stored |-> ok, cached |-> ok, released |-> ok]

\* what follows "await puppet.insert()": when it returns (ok) the record is in
\* the store and _add_to_cache runs; when it raises neither; leaving the
\* "async with" block releases the lock either way
after_insert(ok) ==
    [stored |-> ok, cached |-> ok, released |-> TRUE]

\* puppet.insert() returns (ok) or raises (~ok)
urn_inserted(t, ok) ==
    /\ task[t].pc = "urn_insert"
    /\ LET k == task[t].urn
           id == task[t].puppet
           eff == after_insert(ok)
           c == add_to_cache(by_li_member_urn, by_custom_mxid, id, inst[id]) IN
       /\ db' = IF eff.stored THEN [db EXCEPT ![k] = Record(None)] ELSE db
       /\ by_li_member_urn' = IF eff.cached THEN c.li ELSE by_li_member_urn
       /\ by_custom_mxid' = IF eff.cached THEN c.cu ELSE by_custom_mxid
       /\ registered' = IF eff.cached THEN registered \cup {id} ELSE registered
       /\ locks' = IF eff.released THEN locks \ {k} ELSE locks
       /\ IF ok
          THEN /\ returned' = returned \cup {id}
               /\ ret_count' = [ret_count EXCEPT ![k] = @ + 1]
               /\ Done(t, [calls[t] EXCEPT !.state = "returned", !.val = id,
                                         !.wrote = eff.cached])
               /\ UNCHANGED insert_failed
          ELSE /\ insert_failed' = [insert_failed EXCEPT ![k] = @ + 1]
               /\ Done(t, [calls[t] EXCEPT !.state = "raised", !.wrote = eff.cached])
               /\ UNCHANGED <<returned, ret_count>>
    /\ Finish(t)
    /\ UNCHANGED <<inst, started, constructed, waited>>
    /\ UNCHANGED <<syncvars, mapvars>>

\* ---- get_by_mxid(mxid, create=...) ----

get_by_mxid(t, mxid, c) ==
    /\ task[t].pc = "idle"
    /\ started < MaxOps
    /\ started' = started + 1
    /\ LET li_member_urn == get_id_from_mxid(mxid) IN
       IF Truthy(li_member_urn)
       THEN \* return await cls.get_by_li_member_urn(li_member_urn, create=create)
            /\ task' = [task EXCEPT ![t] = [Idle EXCEPT !.pc = "urn_wait",
                                                        !.urn = li_member_urn[1],
                                                        !.create = c]]
            /\ waited' = IF LockFree(li_member_urn[1]) THEN waited
                         ELSE waited \cup {li_member_urn[1]}
            /\ lastcall' = NoCallLog
            /\ calls' = [calls EXCEPT ![t] = StartLog("urn", li_member_urn[1], c)]
       ELSE \* return None
            /\ lastcall' = [StartLog("mxid", mxid, c) EXCEPT !.state = "returned"]
            /\ UNCHANGED <<task, waited, calls>>
    /\ UNCHANGED <<db, inst, by_li_member_urn, by_custom_mxid, locks,
                   returned, registered, ret_count, constructed, insert_failed>>
    /\ UNCHANGED <<syncvars, mapvars>>

\* ---- get_by_custom_mxid(mxid) ----

get_by_custom_mxid(t, mxid) ==
    /\ task[t].pc = "idle"
    /\ started < MaxOps
    /\ started' = started + 1
    /\ task' = [task EXCEPT ![t] = [Idle EXCEPT !.pc = "cust_wait", !.mxid = mxid]]
    /\ lastcall' = NoCallLog
    /\ calls' = [calls EXCEPT ![t] = StartLog("custom", mxid, FALSE)]
    /\ UNCHANGED <<db, inst, by_li_member_urn, by_custom_mxid, locks,
                   returned, registered>>
    /\ RegHistUnchanged
    /\ UNCHANGED <<syncvars, mapvars>>

cust_enter(t) ==
    /\ task[t].pc = "cust_wait"
    /\ LockFree(task[t].mxid)
    /\ IF by_custom_mxid[task[t].mxid] # 0
       THEN /\ returned' = returned \cup {by_custom_mxid[task[t].mxid]}
            /\ Finish(t)
            /\ Done(t, [calls[t] EXCEPT !.state = "returned",
                                      !.val = by_custom_mxid[task[t].mxid],
                                      !.locked = TRUE])
            /\ UNCHANGED locks
       ELSE /\ locks' = locks \cup {task[t].mxid}
            /\ task' = [task EXCEPT ![t].pc = "cust_load"]
            /\ lastcall' = NoCallLog
            /\ calls' = [calls EXCEPT ![t].locked = TRUE]
            /\ UNCHANGED returned
    /\ UNCHANGED <<db, inst, by_li_member_urn, by_custom_mxid, started, registered>>
    /\ RegHistUnchanged
    /\ UNCHANGED <<syncvars, mapvars>>

\* super().get_by_custom_mxid returns (ok) or raises (~ok)
cust_loaded(t, ok) ==
    /\ task[t].pc = "cust_load"
    /\ LET m == task[t].mxid
           hit == {k \in Keys : db[k].present /\ db[k].custom = Some(m)}
           miss == by_custom_mxid[m] = 0 /\ hit = {} IN
       IF ok /\ hit # {}
       THEN LET k == CHOOSE x \in hit : TRUE
                obj == [urn |-> k, custom |-> db[k].custom]
                c == add_to_cache(by_li_member_urn, by_custom_mxid, NewId, obj) IN
            /\ inst' = Append(inst, obj)
            /\ by_li_member_urn' = c.li
            /\ by_custom_mxid' = c.cu
            /\ registered' = registered \cup {NewId}
            /\ returned' = returned \cup {NewId}
            /\ Done(t, [calls[t] EXCEPT !.state = "returned", !.val = NewId,
                                      !.queries = 1, !.wrote = TRUE,
                                      !.miss = miss])
       ELSE /\ Done(t, [calls[t] EXCEPT !.state = IF ok THEN "returned" ELSE "raised",
                                      !.queries = 1,
                                      !.miss = ok /\ miss])
            /\ UNCHANGED <<inst, by_li_member_urn, by_custom_mxid, registered, returned>>
    /\ locks' = locks \ {task[t].mxid}
    /\ Finish(t)
    /\ UNCHANGED <<db, started>>
    /\ RegHistUnchanged
    /\ UNCHANGED <<syncvars, mapvars>>

\* ---- get_all_with_custom_mxid() ----

Perms(S) == {f \in [1..Cardinality(S) -> S] : \A i, j \in 1..Cardinality(S) : f[i] = f[j] => i = j}

\* mutant of enum_yield: the loaded object is registered and yielded whether or
\* not the key is in by_li_member_urn
enum_yield_loaded(li, cu, id, obj) ==
    [li |-> add_to_cache(li, cu, id, obj).li, cu |-> add_to_cache(li, cu, id, obj).cu,
     out |-> id, reg |-> {id}]

\* one turn of the for loop, up to its yield: the cached object when the key is
\* in by_li_member_urn, else the loaded one after _add_to_cache
enum_yield(li, cu, id, obj) ==
    IF li[obj.urn] # 0
    THEN [li |-> li, cu |-> cu, out |-> li[obj.urn], reg |-> {}]
    ELSE [li |-> add_to_cache(li, cu, id, obj).li, cu |-> add_to_cache(li, cu, id, obj).cu,
          out |-> id, reg |-> {id}]

\* the log entry of one yield: the row's key, what by_li_member_urn held for it
\* before the turn (0: KeyError) and holds after it, the loaded object, the
\* object yielded
Yielded(li, id, obj, y) ==
    [urn |-> obj.urn, cached |-> li[obj.urn], loaded |-> id, out |-> y.out,
     after |-> y.li[obj.urn]]

get_all_with_custom_mxid(t) ==
    /\ task[t].pc = "idle"
    /\ started < MaxOps
    /\ started' = started + 1
    /\ task' = [task EXCEPT ![t] = [Idle EXCEPT !.pc = "enum_load"]]
    /\ lastcall' = NoCallLog
    /\ calls' = [calls EXCEPT ![t] = StartLog("enum", <<>>, FALSE)]
    /\ UNCHANGED <<db, inst, by_li_member_urn, by_custom_mxid, locks,
                   returned, registered>>
    /\ RegHistUnchanged
    /\ UNCHANGED <<syncvars, mapvars>>

\* super().get_all_with_custom_mxid() returns the rows in some order (ok) or
\* raises (~ok); the loop then runs to its first yield
enum_loaded(t, ok) ==
    /\ task[t].pc = "enum_load"
    /\ LET rows == {k \in Keys : db[k].present /\ Truthy(db[k].custom)} IN
       IF ~ok \/ rows = {}
       THEN /\ Finish(t)
            /\ Done(t, [calls[t] EXCEPT !.state = IF ok THEN "returned" ELSE "raised",
                                      !.queries = 1])
            /\ UNCHANGED <<inst, by_li_member_urn, by_custom_mxid, returned, registered>>
       ELSE \E order \in Perms(rows) :
            LET n == Cardinality(rows)
                objs == [i \in 1..n |-> [urn |-> order[i], custom |-> db[order[i]].custom]]
                ids == [i \in 1..n |-> Len(inst) + i]
                y == enum_yield(by_li_member_urn, by_custom_mxid, ids[1], objs[1]) IN
            /\ inst' = inst \o objs
            /\ by_li_member_urn' = y.li
            /\ by_custom_mxid' = y.cu
            /\ returned' = returned \cup {y.out}
            /\ registered' = registered \cup y.reg
            /\ task' = [task EXCEPT ![t].pc = "enum_iter", ![t].queue = Tail(ids)]
            /\ lastcall' = NoCallLog
            /\ calls' = [calls EXCEPT ![t].queries = 1,
                                      ![t].wrote = y.reg # {},
                                      ![t].yields = <<Yielded(by_li_member_urn, ids[1],
                                                              objs[1], y)>>]
    /\ UNCHANGED <<db, locks, started>>
    /\ RegHistUnchanged
    /\ UNCHANGED <<syncvars, mapvars>>

\* the consumer asks for the next element
enum_next(t) ==
    /\ task[t].pc = "enum_iter"
    /\ IF task[t].queue = <<>>
       THEN /\ Finish(t)
            /\ Done(t, [calls[t] EXCEPT !.state = "returned"])
            /\ UNCHANGED <<by_li_member_urn, by_custom_mxid, returned, registered>>
       ELSE LET id == Head(task[t].queue)
                y == enum_yield(by_li_member_urn, by_custom_mxid, id, inst[id]) IN
            /\ by_li_member_urn' = y.li
            /\ by_custom_mxid' = y.cu
            /\ returned' = returned \cup {y.out}
            /\ registered' = registered \cup y.reg
            /\ task' = [task EXCEPT ![t].queue = Tail(@)]
            /\ lastcall' = NoCallLog
            /\ calls' = [calls EXCEPT ![t].wrote = @ \/ y.reg # {},
                                      ![t].yields = Append(@, Yielded(by_li_member_urn, id,
                                                                     inst[id], y))]
    /\ UNCHANGED <<db, inst, locks, started>>
    /\ RegHistUnchanged
    /\ UNCHANGED <<syncvars, mapvars>>

----------------------------------------------------------------------------
\* Registry: initial states and next-state relations

\* the store holds, per key, no record, a record without custom mxid, or a
\* record with the key's own custom mxid (at most one record per custom mxid);
\* of two stores that differ by exchanging the keys, one is taken
Rank(r) == IF ~r.present THEN 0 ELSE IF IsNone(r.custom) THEN 1 ELSE 2
InitStores == {f \in [Keys -> {NoRecord, Record(None), Record(Some(M1)), Record(Some(M2))}] :
                 /\ \A k \in Keys : Truthy(f[k].custom) => f[k].custom = Some(CustomOf(k))
                 /\ Rank(f[K1]) <= Rank(f[K2])}

InitRegistry ==
    /\ db \in InitStores
    /\ inst = <<>>
    /\ by_li_member_urn = [k \in Keys |-> 0]
    /\ by_custom_mxid = [m \in CustomIds |-> 0]
    /\ locks = {}
    /\ task = [t \in Tasks |-> Idle]
    /\ started = 0
    /\ returned = {}
    /\ registered = {}
    /\ ret_count = [k \in Keys |-> 0]
    /\ constructed = [k \in Keys |-> 0]
    /\ insert_failed = [k \in Keys |-> 0]
    /\ waited = {}
    /\ calls = [t \in Tasks |-> NoCallLog]
    /\ lastcall = NoCallLog

NextUrn ==
    \E t \in Tasks :
        \/ \E k \in Keys, c \in BOOLEAN : get_by_li_member_urn(t, k, c)
        \/ urn_enter(t)
        \/ \E ok \in BOOLEAN : urn_loaded(t, ok)
        \/ \E ok \in BOOLEAN : urn_inserted(t, ok)

NextRegistry ==
    \E t \in Tasks :
        \/ \E k \in Keys, c \in BOOLEAN : get_by_li_member_urn(t, k, c)
        \/ urn_enter(t)
        \/ \E ok \in BOOLEAN : urn_loaded(t, ok)
        \/ \E ok \in BOOLEAN : urn_inserted(t, ok)
        \/ \E m \in Mxids, c \in BOOLEAN : get_by_mxid(t, m, c)
        \/ \E m \in CustomIds : get_by_custom_mxid(t, m)
        \/ cust_enter(t)
        \/ \E ok \in BOOLEAN : cust_loaded(t, ok)
        \/ get_all_with_custom_mxid(t)
        \/ \E ok \in BOOLEAN : enum_loaded(t, ok)
        \/ enum_next(t)

----------------------------------------------------------------------------
\* Profile synchroniser: display name

\* config["bridge.displayname_preference"], config["bridge.displayname_template"]
displayname_preference == <<"name", "first_name", "last_name">>
displayname_suffix == <<" (LinkedIn)">>

\* str(x) of an Optional[str] inside an f-string / str.format
Str(o) == IF IsNone(o) THEN <<"None">> ELSE o[1]

RECURSIVE first_preferred(_, _, _)
first_preferred(fields, prefs, i) ==
    IF i > Len(prefs) THEN None
    ELSE IF Truthy(fields[prefs[i]]) THEN fields[prefs[i]]
    ELSE first_preferred(fields, prefs, i + 1)

\* _get_displayname
get_displayname(info) ==
    LET first == info.firstName
        lastn == info.lastName
        fields == [displayname |-> None,
                   name |-> Some(Str(first) \o <<" ">> \o Str(lastn)),
                   first_name |-> first,
                   last_name |-> lastn]
    IN Some(Str(first_preferred(fields, displayname_preference, 1)) \o displayname_suffix)

\* mutant of name_needs_push: "or not self.name_set" is missing
name_needs_push_no_retry(p, name) == name # p.name

\* the condition of line 155: the name is pushed when it differs from the one
\* held or when the last push did not succeed
name_needs_push(p, name) == name # p.name \/ ~p.name_set

----------------------------------------------------------------------------
\* Profile synchroniser: avatar

\* photo_id_re = r"https://.*?/image/(.*?)/profile-.*?" applied with match():
\* the first "/image/" after the scheme, then the first "/profile-" after it
photo_id_re(url) ==
    IF Len(url) >= 1 /\ url[1] = "https://"
       /\ IndexOf(url, "/image/", 2) # 0
       /\ IndexOf(url, "/profile-", IndexOf(url, "/image/", 2) + 1) # 0
    THEN Some(SubSeq(url, IndexOf(url, "/image/", 2) + 1,
                     IndexOf(url, "/profile-", IndexOf(url, "/image/", 2) + 1) - 1))
    ELSE None

\* the first statements of _update_photo: the photo id of the picture
extract_photo_id(picture) ==
    IF Truthy(picture.rootUrl) THEN photo_id_re(picture.rootUrl[1]) ELSE None

\* mutant of photo_needs_update: the condition of line 192 is missing
photo_needs_update_always(p, photo_id) == TRUE

\* the condition of line 192: the avatar is fetched and pushed when the photo
\* id differs from the one held or when the last push did not succeed
photo_needs_update(p, photo_id) == photo_id # p.photo_id \/ ~p.avatar_set

\* reupload_avatar(intent, url) when the download and the upload succeed: the
\* content URI upload_media returns; the homeserver h names every upload anew
reupload_avatar(h, url) == Some(<<"mxc://h/", ToString(h.uploads + 1)>>)

----------------------------------------------------------------------------
\* Profile synchroniser: update_info

\* the persisted fields update_info may write
Persisted(p) == <<p.name, p.name_set, p.photo_id, p.photo_mxc, p.avatar_set>>
\* the avatar state among them
AvatarState(p) == <<p.photo_id, p.photo_mxc, p.avatar_set>>

NotSame == [same_info |-> FALSE, same_avatar_arg |-> FALSE, name_push_failed |-> FALSE,
            fetch_failed |-> FALSE, avatar_push_failed |-> FALSE, applied |-> FALSE]

\* What the log of a call says about the call before it (log l), when that call
\* had the same info: whether update_avatar was the same, which of its pushes
\* and fetches failed, and whether it left both flags set.
Before(l, info, update_avatar) ==
    IF l.called /\ l.info = info
    THEN [same_info |-> TRUE,
          same_avatar_arg |-> l.update_avatar = update_avatar,
          name_push_failed |-> l.name_push = "fail",
          fetch_failed |-> l.fetch = "fail",
          avatar_push_failed |-> l.avatar_push = "fail",
          \* name_set and avatar_set as the call before left them
          applied |-> l.post_applied]
    ELSE NotSame

\* ---- inputs ----

Url(id) == <<"https://", "media", "/image/">> \o id \o <<"/profile-", "shrink">>
Picture(url, arts) == [rootUrl |-> url, artifacts |-> arts]
NoPicture == Picture(None, <<>>)
Profile(first, lastn, pic) ==
    [empty |-> FALSE, firstName |-> first, lastName |-> lastn, picture |-> pic]

EmptyInfo == [empty |-> TRUE, firstName |-> None, lastName |-> None, picture |-> NoPicture]
Infos ==
    { EmptyInfo,
      Profile(Some(<<"Ada">>), Some(<<"Lovelace">>), Picture(Some(Url(<<"A">>)), <<<<"100">>>>)),
      Profile(Some(<<"Ada">>), Some(<<"Lovelace">>), Picture(Some(Url(<<"B">>)), <<<<"100">>>>)),
      Profile(Some(<<"Bob">>), None, Picture(Some(<<"http://", "media", "/image/", "A">>), <<<<"100">>>>)),
      Profile(Some(<<"Bob">>), None, Picture(Some(Url(<<"A">>)), <<>>)) }
Sources == {None, Some(K1)}

\* the coroutines that call update_info on the Puppet
Callers == 1 .. NumCallers

\* mutant of no_info: "if not info: return self" is missing
no_info_unguarded(info) == FALSE

\* "if not info" (line 119)
no_info(info) == info.empty

\* datetime.now() (line 123): a new value at every evaluation
Now(c) == Some(<<ToString(c + 1)>>)

\* ---- the frame of a call: its arguments, locals and position ----

\* pc: "idle" (no call), or the await the call is suspended in:
\* "set_displayname" (line 158), "upload_media" (line 151),
\* "set_avatar_url" (line 209), "save" (line 137); "return" marks a call that
\* has run to line 121 or 142
NoFrame == [pc |-> "idle", source |-> None, info |-> EmptyInfo, update_avatar |-> FALSE,
            changed |-> FALSE, pushing |-> None, before |-> NotSame,
            wrote |-> FALSE, wrote_avatar |-> FALSE, wrote_sync |-> FALSE,
            name_push |-> "none", fetch |-> "none", avatar_push |-> "none",
            save |-> "none", raised |-> FALSE]

\* the frame when update_info is entered right after a call logged as l
Enter(l, source, info, update_avatar) ==
    [NoFrame EXCEPT !.pc = "entered", !.source = source, !.info = info,
                    !.update_avatar = update_avatar,
                    !.before = Before(l, info, update_avatar)]

NoCall == [called |-> FALSE, info |-> EmptyInfo, update_avatar |-> FALSE,
           before |-> NotSame,
           name_push |-> "none", fetch |-> "none", avatar_push |-> "none",
           save |-> "none", raised |-> FALSE, changed |-> FALSE,
           avatar_changed |-> FALSE, sync_changed |-> FALSE, post_applied |-> FALSE]

\* the log of a call that returns with frame f and leaves the Puppet as p
LogOf(p, f) ==
    [called |-> TRUE, info |-> f.info, update_avatar |-> f.update_avatar,
     before |-> f.before,
     name_push |-> f.name_push, fetch |-> f.fetch, avatar_push |-> f.avatar_push,
     save |-> f.save, raised |-> f.raised,
     changed |-> f.wrote, avatar_changed |-> f.wrote_avatar,
     sync_changed |-> f.wrote_sync,
     post_applied |-> p.name_set /\ p.avatar_set]

\* ---- the code between two awaits, as a function of the Puppet p, the
\* ---- homeserver h and the frame f: the three after it has run

\* "return self" (lines 121, 142)
Return(p, h, f) == [p |-> p, h |-> h, f |-> [f EXCEPT !.pc = "return"]]

\* the handler of lines 138-141, then line 142; the handler formats
\* source.li_member_urn: None has no such attribute, and the call raises
handler(p, h, f) ==
    [p |-> p, h |-> h,
     f |-> [f EXCEPT !.pc = "return", !.raised = IsNone(f.source)]]

\* lines 136-137: "if changed: await self.save()"
to_save(p, h, f) ==
    IF f.changed THEN [p |-> p, h |-> h, f |-> [f EXCEPT !.pc = "save"]]
    ELSE Return(p, h, f)

\* lines 126-134 and _update_photo up to its first await; download:
\* requests.get answers ok (TRUE) or not (FALSE), without suspending
to_photo(p, h, f, download) ==
    IF ~f.update_avatar THEN to_save(p, h, f)
    ELSE IF ~photo_needs_update(p, extract_photo_id(f.info.picture))
    THEN to_save(p, h, f)
    ELSE IF Truthy(extract_photo_id(f.info.picture))
    THEN IF Len(f.info.picture.artifacts) = 0
         THEN \* picture["artifacts"][0] raises, after self.photo_id was assigned
              handler([p EXCEPT !.photo_id = extract_photo_id(f.info.picture)], h, f)
         ELSE IF ~download
         THEN \* reupload_avatar raises, after self.photo_id was assigned
              handler([p EXCEPT !.photo_id = extract_photo_id(f.info.picture)], h,
                      [f EXCEPT !.fetch = "fail"])
         ELSE [p |-> [p EXCEPT !.photo_id = extract_photo_id(f.info.picture)],
               h |-> h, f |-> [f EXCEPT !.pc = "upload_media"]]
    ELSE \* ContentURI(""), then set_avatar_url(self.photo_mxc)
         [p |-> [p EXCEPT !.photo_id = extract_photo_id(f.info.picture),
                          !.photo_mxc = Some(<<>>)],
          h |-> h,
          f |-> [f EXCEPT !.pc = "set_avatar_url", !.pushing = Some(<<>>)]]

\* lines 123-125 and _update_name up to its await
to_name(p, h, f, now, download) ==
    IF name_needs_push(p, get_displayname(f.info))
    THEN [p |-> [p EXCEPT !.last_info_sync = now, !.name = get_displayname(f.info)],
          h |-> h,
          f |-> [f EXCEPT !.pc = "set_displayname", !.changed = TRUE,
                          !.pushing = get_displayname(f.info)]]
    ELSE to_photo([p EXCEPT !.last_info_sync = now], h, f, download)

\* set_displayname has answered, ok: it returned (TRUE) or raised (FALSE);
\* lines 159-163, then on to _update_photo
after_set_displayname(p, h, f, ok, download) ==
    to_photo([p EXCEPT !.name_set = ok],
             IF ok THEN [h EXCEPT !.name = f.pushing] ELSE h,
             [f EXCEPT !.name_push = IF ok THEN "ok" ELSE "fail", !.pushing = None],
             download)

\* upload_media has answered: line 201, then set_avatar_url(self.photo_mxc)
after_upload_media(p, h, f, ok) ==
    IF ok
    THEN [p |-> [p EXCEPT !.photo_mxc = reupload_avatar(h, f.info.picture.rootUrl[1] \o f.info.picture.artifacts[1])],
          h |-> [h EXCEPT !.uploads = @ + 1],
          f |-> [f EXCEPT !.pc = "set_avatar_url", !.fetch = "ok",
                          !.pushing = reupload_avatar(h, f.info.picture.rootUrl[1] \o f.info.picture.artifacts[1])]]
    ELSE handler(p, h, [f EXCEPT !.fetch = "fail"])

\* set_avatar_url has answered: lines 210-215, then lines 133-137
after_set_avatar_url(p, h, f, ok) ==
    to_save([p EXCEPT !.avatar_set = ok],
            IF ok THEN [h EXCEPT !.avatar = f.pushing] ELSE h,
            [f EXCEPT !.avatar_push = IF ok THEN "ok" ELSE "fail", !.pushing = None,
                      !.changed = TRUE])

\* save has answered: line 142, through the handler when it raised
after_save(p, h, f, ok) ==
    IF ok THEN Return(p, h, [f EXCEPT !.save = "ok"])
    ELSE handler(p, h, [f EXCEPT !.save = "fail"])

\* the frame f of a call that has turned Puppet p into q: what the call has
\* changed so far (a call assigns each field once at most)
Wrote(f, p, q) ==
    [f EXCEPT !.wrote = @ \/ Persisted(q) # Persisted(p),
              !.wrote_avatar = @ \/ AvatarState(q) # AvatarState(p),
              !.wrote_sync = @ \/ q.last_info_sync # p.last_info_sync]

\* caller c has run to its next await or to its return, leaving r
Apply(c, r) ==
    /\ puppet' = r.p
    /\ hs' = r.h
    /\ IF r.f.pc = "return"
       THEN /\ sync' = [sync EXCEPT ![c] = NoFrame]
            /\ last' = LogOf(r.p, Wrote(r.f, puppet, r.p))
       ELSE /\ sync' = [sync EXCEPT ![c] = Wrote(r.f, puppet, r.p)]
            /\ last' = NoCall

\* ---- actions: one per stretch of code between two awaits ----

\* caller c calls update_info(source, info, update_avatar)
update_info(c, source, info, update_avatar, download) ==
    /\ sync[c].pc = "idle"
    /\ IF no_info(info)
       THEN /\ clock' = clock
            /\ Apply(c, Return(puppet, hs, Enter(last, source, info, update_avatar)))
       ELSE /\ clock' = clock + 1
            /\ Apply(c, to_name(puppet, hs, Enter(last, source, info, update_avatar),
                                Now(clock), download))
    /\ UNCHANGED <<regvars, mapvars>>

\* set_displayname answers caller c
set_displayname_answer(c, ok, download) ==
    /\ sync[c].pc = "set_displayname"
    /\ Apply(c, after_set_displayname(puppet, hs, sync[c], ok, download))
    /\ UNCHANGED <<clock, regvars, mapvars>>

\* upload_media answers caller c
upload_media_answer(c, ok) ==
    /\ sync[c].pc = "upload_media"
    /\ Apply(c, after_upload_media(puppet, hs, sync[c], ok))
    /\ UNCHANGED <<clock, regvars, mapvars>>

\* set_avatar_url answers caller c
set_avatar_url_answer(c, ok) ==
    /\ sync[c].pc = "set_avatar_url"
    /\ Apply(c, after_set_avatar_url(puppet, hs, sync[c], ok))
    /\ UNCHANGED <<clock, regvars, mapvars>>

\* save answers caller c
save_answer(c, ok) ==
    /\ sync[c].pc = "save"
    /\ Apply(c, after_save(puppet, hs, sync[c], ok))
    /\ UNCHANGED <<clock, regvars, mapvars>>

\* a Puppet as the registry constructs it (line 246); _last_info_sync is None
InitSync ==
    /\ puppet = [name |-> None, name_set |-> FALSE, photo_id |-> None,
                 photo_mxc |-> None, avatar_set |-> FALSE, last_info_sync |-> None]
    /\ hs = [name |-> None, avatar |-> None, uploads |-> 0]
    /\ sync = [c \in Callers |-> NoFrame]
    /\ clock = 0
    /\ last = NoCall

\* the calls of the coroutines cs, interleaved at the awaits; n bounds the
\* number of calls that go past line 119
NextSyncOf(cs, n) ==
    \E c \in cs :
        \/ \E source \in Sources, info \in Infos, update_avatar \in BOOLEAN,
              download \in BOOLEAN :
               /\ no_info(info) \/ clock < n
               /\ update_info(c, source, info, update_avatar, download)
        \/ \E ok \in BOOLEAN, download \in BOOLEAN : set_displayname_answer(c, ok, download)
        \/ \E ok \in BOOLEAN : upload_media_answer(c, ok)
        \/ \E ok \in BOOLEAN : set_avatar_url_answer(c, ok)
        \/ \E ok \in BOOLEAN : save_answer(c, ok)

\* one coroutine: calls that do not overlap
NextSync == NextSyncOf({1}, MaxCalls)
\* every coroutine: calls that overlap at the awaits
NextSyncOverlap == NextSyncOf(Callers, MaxOverlap)

----------------------------------------------------------------------------
\* Identifier mapper: one round trip, key -> mxid -> key

\* the characters remote keys are made of: a plain one and those of the
\* template's prefix and suffix
MapperAlphabet == {"a", "l", "_", ":", "h", "@"}
MapperKeys == UNION {[1..n -> MapperAlphabet] : n \in 0..MaxLen}

NoMapping == [pc |-> "idle", li_member_urn |-> <<>>, mxid |-> <<>>, parsed |-> None]

InitMapper == mapper = NoMapping

\* cls.get_mxid_from_id(li_member_urn)
format_key ==
    /\ mapper.pc = "key"
    /\ mapper' = [mapper EXCEPT !.pc = "mxid", !.mxid = get_mxid_from_id(mapper.li_member_urn)]
    /\ UNCHANGED <<regvars, syncvars>>

\* cls.get_id_from_mxid(mxid)
parse_mxid ==
    /\ mapper.pc = "mxid"
    /\ mapper' = [mapper EXCEPT !.pc = "parsed", !.parsed = get_id_from_mxid(mapper.mxid)]
    /\ UNCHANGED <<regvars, syncvars>>

NextMapper == format_key \/ parse_mxid

----------------------------------------------------------------------------
\* Specifications

Init == InitRegistry /\ InitSync /\ InitMapper

\* every registry operation, interleaved at the awaits
Next == NextRegistry
Spec == Init /\ [][Next]_vars

\* get_by_li_member_urn callers only
SpecUrn == Init /\ [][NextUrn]_vars

\* update_info calls on one Puppet that do not overlap (the registry stays as
\* constructed)
InitSyncOnly == Init /\ db = [k \in Keys |-> NoRecord]
SpecSync == InitSyncOnly /\ [][NextSync]_vars

\* update_info calls on one Puppet from NumCallers coroutines
SpecSyncOverlap == InitSyncOnly /\ [][NextSyncOverlap]_vars

\* the identifier mapper applied to every remote key of up to MaxLen characters
InitMapperOnly ==
    /\ InitRegistry /\ db = [k \in Keys |-> NoRecord]
    /\ InitSync
    /\ mapper \in {[NoMapping EXCEPT !.pc = "key", !.li_member_urn = k] : k \in MapperKeys}
SpecMapper == InitMapperOnly /\ [][NextMapper]_vars

----------------------------------------------------------------------------
\* Claims about the registry

\* identities of the Puppet objects handed out or cached so far
Known == returned \cup registered

\* C1: concurrent get_by_li_member_urn calls for one key, interleaved at the
\* store awaits, all return the same Puppet object, and the object for a key is
\* constructed once: every construction but at most one ended in a failed insert.
C1_SingleInstancePerKey ==
    /\ \A i, j \in returned : inst[i].urn = inst[j].urn => i = j
    /\ \A k \in Keys : constructed[k] - insert_failed[k] <= 1

\* C1 witness: a key whose Puppet was constructed, for which a caller found the
\* lock held, and which two calls have returned.
C1_Witness ==
    \E k \in Keys : constructed[k] = 1 /\ insert_failed[k] = 0 /\ k \in waited
                    /\ ret_count[k] >= 2

\* C2: under any interleaving of all registry operations no two distinct Puppet
\* objects with the same remote key are returned to callers or put in the caches.
C2_AtMostOneInstancePerKey ==
    \A i, j \in Known : inst[i].urn = inst[j].urn => i = j

\* C10: the two caches agree on identity: the object the custom map holds for a
\* custom mxid is the object the remote-key map holds for that object's key, and
\* an object in the remote-key map with a custom mxid is the one the custom map
\* holds for that mxid.
C10_IndicesAgree ==
    /\ \A m \in CustomIds :
          by_custom_mxid[m] # 0 =>
              by_li_member_urn[inst[by_custom_mxid[m]].urn] = by_custom_mxid[m]
    /\ \A k \in Keys :
          (by_li_member_urn[k] # 0 /\ Truthy(inst[by_li_member_urn[k]].custom)) =>
              by_custom_mxid[inst[by_li_member_urn[k]].custom[1]] = by_li_member_urn[k]

\* C10 witness: two objects of one key with a custom mxid were both put in the
\* caches (the later replaced the earlier in both maps).
C10_Witness ==
    \E i, j \in registered :
        /\ i # j /\ inst[i].urn = inst[j].urn /\ Truthy(inst[j].custom)
        /\ by_custom_mxid[inst[j].custom[1]] = j
        /\ by_li_member_urn[inst[j].urn] = j

\* inserts for key k that were invoked and have not returned
inserts_in_flight(k) ==
    Cardinality({t \in Tasks : task[t].pc = "urn_insert" /\ task[t].urn = k})

\* while an insert for a key is in progress the store has no record of the key
InsertOnlyWithoutRecord ==
    \A k \in Keys : inserts_in_flight(k) > 0 => ~db[k].present

\* C11 as stated: insert is invoked at most once per remote key (every
\* construction at line 246 is followed by the insert of line 247), and only
\* for a key without a record at the moment of the insert.
C11_Original ==
    /\ \A k \in Keys : constructed[k] <= 1
    /\ InsertOnlyWithoutRecord

\* C11 amended: insert is invoked only for a key without a record, no two
\* inserts for one key are in progress together, and per key at most one
\* insert succeeds: every other invocation raised.
C11_InsertSucceedsOncePerKey ==
    /\ \A k \in Keys : inserts_in_flight(k) <= 1
    /\ \A k \in Keys : constructed[k] - insert_failed[k] - inserts_in_flight(k) <= 1
    /\ \A k \in Keys :
          constructed[k] - insert_failed[k] - inserts_in_flight(k) = 1 =>
              db[k].present /\ inserts_in_flight(k) = 0
    /\ InsertOnlyWithoutRecord

\* C11 witness: for one key an insert raised, a later call invoked insert
\* again, and that insert put the record in the store.
C11_Witness ==
    \E k \in Keys : /\ constructed[k] = 2 /\ insert_failed[k] = 1
                    /\ inserts_in_flight(k) = 0 /\ db[k].present

\* C12: a lookup without create permission (get_by_custom_mxid, or
\* get_by_li_member_urn / get_by_mxid with create=False) never invokes insert;
\* when the store answers and the key is in neither the cache nor the store it
\* returns None and writes no cache map.
C12_NoCreateWithoutPermission ==
    /\ \A t \in Tasks : task[t].pc = "urn_insert" => task[t].create
    /\ \A t \in Tasks : calls[t].inserts > 0 => calls[t].op = "urn" /\ calls[t].create
    /\ lastcall.inserts > 0 => lastcall.op = "urn" /\ lastcall.create
    /\ (lastcall.state = "returned" /\ lastcall.op \in {"urn", "custom", "mxid"}
        /\ ~lastcall.create /\ (lastcall.miss \/ lastcall.op = "mxid")) =>
           lastcall.val = 0 /\ ~lastcall.wrote

\* C12 witness: get_by_li_member_urn(k, create=False) queried the store for a
\* key that is in neither the cache nor the store and returned None, while
\* the other key's Puppet is cached.
C12_Witness ==
    /\ lastcall.op = "urn" /\ ~lastcall.create /\ lastcall.state = "returned"
    /\ lastcall.miss /\ lastcall.queries = 1 /\ lastcall.val = 0
    /\ by_li_member_urn[lastcall.arg] = 0 /\ ~db[lastcall.arg].present
    /\ \E k \in Keys : by_li_member_urn[k] # 0

\* the mxid does not have the template's shape, or has nothing between prefix
\* and suffix
NoKeyIn(mxid) ==
    \/ ~StartsWith(mxid, template_prefix)
    \/ ~EndsWith(mxid, template_suffix)
    \/ Len(mxid) <= Len(template_prefix) + Len(template_suffix)

\* C13: get_by_mxid with an mxid that holds no remote key returns None at once:
\* no store query, no lock taken, no cache map changed, the coroutine not
\* suspended, for create True and False.
C13_UnmappedMxidReturnsNone ==
    [][\A t \in Tasks, m \in Mxids, c \in BOOLEAN :
          (NoKeyIn(m) /\ get_by_mxid(t, m, c)) =>
              /\ UNCHANGED <<db, inst, by_li_member_urn, by_custom_mxid, locks, task>>
              /\ lastcall'.op = "mxid" /\ lastcall'.arg = m /\ lastcall'.create = c
              /\ lastcall'.state = "returned" /\ lastcall'.val = 0
              /\ lastcall'.queries = 0 /\ lastcall'.inserts = 0
              /\ ~lastcall'.locked /\ ~lastcall'.wrote]_vars

\* C13 witness: get_by_mxid(mxid, create=True) with the mxid of a real user
\* (not the ghost prefix) returned None while a Puppet is cached.
C13_Witness ==
    /\ lastcall.op = "mxid" /\ lastcall.arg = M1 /\ lastcall.create
    /\ lastcall.state = "returned" /\ lastcall.val = 0
    /\ \E k \in Keys : by_li_member_urn[k] # 0

\* the store's rows with a custom mxid (no operation adds or removes one)
CustomRows == {k \in Keys : db[k].present /\ Truthy(db[k].custom)}

\* a yield gave the cached object when the key was in by_li_member_urn, else
\* the loaded object, after putting it in the cache
YieldOk(y) ==
    /\ inst[y.out].urn = y.urn
    /\ y.cached # 0 => y.out = y.cached /\ y.after = y.cached
    /\ y.cached = 0 => y.out = y.loaded /\ y.after = y.loaded /\ y.loaded \in registered

\* C14: a get_all_with_custom_mxid call that is iterated to its end yields one
\* entry per store row with a custom mxid, and every entry is the cached object
\* when the row's key is in by_li_member_urn at the yield, else the loaded
\* object, registered in the cache.
C14_EnumerationYieldsCachedFirst ==
    /\ \A t \in Tasks : \A i \in 1..Len(calls[t].yields) : YieldOk(calls[t].yields[i])
    /\ \A i \in 1..Len(lastcall.yields) : YieldOk(lastcall.yields[i])
    /\ (lastcall.op = "enum" /\ lastcall.state = "returned") =>
          /\ Len(lastcall.yields) = Cardinality(CustomRows)
          /\ {lastcall.yields[i].urn : i \in 1..Len(lastcall.yields)} = CustomRows

\* C14 witness: an enumeration of two rows ended; one entry was the object
\* already cached for its key, the other the freshly loaded one.
C14_Witness ==
    /\ lastcall.op = "enum" /\ lastcall.state = "returned" /\ Len(lastcall.yields) = 2
    /\ \E i, j \in 1..2 : /\ lastcall.yields[i].cached # 0
                          /\ lastcall.yields[i].out # lastcall.yields[i].loaded
                          /\ lastcall.yields[j].cached = 0

\* coroutine t is suspended in the store query or the insert of a
\* get_by_li_member_urn call for key k, inside the lock
Holds(t, k) == task[t].pc \in {"urn_load", "urn_insert"} /\ task[t].urn = k

\* C15: the lock is per key: a get_by_li_member_urn call waiting for its lock
\* can proceed exactly when no other call for the same key is inside the lock,
\* whatever other keys' locks are held.
C15_LockIsPerKey ==
    \A t \in Tasks :
        task[t].pc = "urn_wait" =>
            (LockFree(task[t].urn) <=> ~\E u \in Tasks \ {t} : Holds(u, task[t].urn))

\* C15 witness: a call for one key has queried the store and returned its
\* Puppet while another coroutine is suspended in the insert for the other key,
\* holding that key's lock.
C15_Witness ==
    /\ lastcall.op = "urn" /\ lastcall.state = "returned" /\ lastcall.val # 0
    /\ lastcall.queries = 1
    /\ \E t \in Tasks, k \in Keys :
          k # lastcall.arg /\ Holds(t, k) /\ task[t].pc = "urn_insert" /\ k \in locks

\* C18: when the store query or the insert of a get_by_li_member_urn call
\* raises, the call raises, it has written no cache map, its key's lock is free
\* again, after a failed insert the key is neither cached nor stored, and no
\* lock is ever left held without a call inside it.
C18_StoreFailurePropagates ==
    /\ (lastcall.op = "urn" /\ lastcall.state = "raised") =>
          /\ ~lastcall.wrote /\ lastcall.val = 0
          /\ LockFree(lastcall.arg)
          /\ lastcall.inserts = 1 =>
                by_li_member_urn[lastcall.arg] = 0 /\ ~db[lastcall.arg].present
    /\ \A k \in locks :
          \E t \in Tasks : \/ Holds(t, k)
                           \/ task[t].pc = "cust_load" /\ task[t].mxid = k

\* C18 witness: after an insert for a key raised, a later call for the key
\* took the lock, inserted and returned the Puppet.
C18_Witness ==
    /\ lastcall.op = "urn" /\ lastcall.state = "returned" /\ lastcall.val # 0
    /\ lastcall.inserts = 1
    /\ insert_failed[lastcall.arg] >= 1
    /\ by_li_member_urn[lastcall.arg] = lastcall.val

\* C20: every Puppet in the remote-key map is filed under its own key and has
\* a record with that key in the store; every Puppet in the custom map is the
\* Puppet of a stored record with that custom mxid.
C20_CachedImpliesStored ==
    /\ \A k \in Keys :
          by_li_member_urn[k] # 0 => inst[by_li_member_urn[k]].urn = k /\ db[k].present
    /\ \A m \in CustomIds :
          by_custom_mxid[m] # 0 =>
              /\ db[inst[by_custom_mxid[m]].urn].present
              /\ db[inst[by_custom_mxid[m]].urn].custom = Some(m)

\* C20 witness: one key's Puppet was constructed and inserted, the other key's
\* Puppet was loaded from a record with a custom mxid; both are cached.
C20_Witness ==
    \E k1, k2 \in Keys :
        /\ k1 # k2
        /\ by_li_member_urn[k1] # 0 /\ constructed[k1] >= 1
        /\ by_li_member_urn[k2] # 0 /\ Truthy(inst[by_li_member_urn[k2]].custom)

----------------------------------------------------------------------------
\* Claims about update_info.  last is the log of a call in the state the call
\* returns in, and no log in every other state.

\* C3: update_info never raises.
C3_NeverRaises == ~last.raised

\* C4: after a call whose avatar fetch/upload failed, the next call with the
\* same profile data (and update_avatar set) attempts the fetch/upload again.
C4_FetchRetriedNextCall ==
    (last.before.same_info /\ last.before.fetch_failed /\ last.update_avatar)
        => last.fetch # "none"

\* C5: a call whose avatar fetch fails leaves photo_id, photo_mxc and avatar_set
\* as they were before the call.
C5_AvatarUnchangedOnFetchFailure == last.fetch = "fail" => ~last.avatar_changed

\* C6: a call that changes a persisted field invokes save() before it returns.
C6_ChangedImpliesSaved == last.changed => last.save # "none"

\* C7: when set_displayname raises, the call ends with name_set false and name
\* the new candidate name, and it returns without raising.
C7_NamePushFailureIsolated ==
    last.name_push = "fail" =>
        /\ ~puppet.name_set
        /\ puppet.name = get_displayname(last.info)
        /\ ~last.raised

\* a failed push leaves its flag false at the end of the call
FlagFalseAfterFailedPush ==
    /\ last.name_push = "fail" => ~puppet.name_set
    /\ last.avatar_push = "fail" => ~puppet.avatar_set

\* the call after a failed name push, with the same profile data, pushes the
\* name again, and a push that succeeds sets the flag
NamePushRetried ==
    (last.before.same_info /\ last.before.name_push_failed) =>
        /\ last.name_push # "none"
        /\ last.name_push = "ok" => puppet.name_set

\* C8 as stated: after a failed name or avatar push the flag is false, and the
\* next call with identical profile data (and update_avatar set) invokes that
\* push again, setting the flag when it succeeds.
C8_Original ==
    /\ FlagFalseAfterFailedPush
    /\ NamePushRetried
    /\ (last.before.same_info /\ last.before.avatar_push_failed /\ last.update_avatar) =>
          /\ last.avatar_push # "none"
          /\ last.avatar_push = "ok" => puppet.avatar_set

\* C8 amended: as C8, but the avatar push is invoked again only when the next
\* call's own avatar fetch/upload does not fail.
C8_PushRetriedNextCall ==
    /\ FlagFalseAfterFailedPush
    /\ NamePushRetried
    /\ (last.before.same_info /\ last.before.avatar_push_failed /\ last.update_avatar
        /\ last.fetch # "fail") =>
          /\ last.avatar_push # "none"
          /\ last.avatar_push = "ok" => puppet.avatar_set

\* C8 witness: both pushes failed in one call and succeeded in the next call
\* with the same profile data, after a successful re-upload.
C8_Witness ==
    /\ last.before.same_info /\ last.before.name_push_failed
    /\ last.before.avatar_push_failed
    /\ last.name_push = "ok" /\ last.fetch = "ok" /\ last.avatar_push = "ok"
    /\ puppet.name_set /\ puppet.avatar_set

\* the call pushed nothing, fetched nothing, saved nothing and changed no
\* persisted field
NoOpCall ==
    /\ last.name_push = "none" /\ last.fetch = "none" /\ last.avatar_push = "none"
    /\ last.save = "none" /\ ~last.changed

\* C9 as stated: when a call with profile data d ended with name_set and
\* avatar_set both true, the next call with the same d is a no-op.
C9_Original == (last.before.same_info /\ last.before.applied) => NoOpCall

\* C9 amended: when a call with profile data d ended with name_set and
\* avatar_set both true, the next call with the same d and the same
\* update_avatar argument is a no-op.
C9_Idempotent ==
    (last.before.same_info /\ last.before.same_avatar_arg /\ last.before.applied)
        => NoOpCall

\* C9 witness: a call with a profile and update_avatar set that repeats the call
\* before it, which had left both flags true after pushing name and avatar.
C9_Witness ==
    /\ last.before.same_info /\ last.before.same_avatar_arg /\ last.before.applied
    /\ ~last.info.empty /\ last.update_avatar
    /\ Truthy(puppet.photo_id) /\ Truthy(puppet.photo_mxc)
    /\ hs.name = puppet.name /\ hs.avatar = puppet.photo_mxc

\* C16: update_info with empty (or no) info is a no-op: every field of the
\* Puppet, _last_info_sync included, and what the homeserver holds are as
\* before; no push, no fetch, no save; the call does not raise.
C16_EmptyInfoIsNoOp ==
    [][(last'.called /\ last'.info.empty) =>
          /\ puppet' = puppet /\ hs' = hs
          /\ NoOpCall' /\ ~last'.raised /\ ~last'.sync_changed]_vars

\* C16 witness: update_info with empty info was called on a Puppet that was
\* never synchronised: _last_info_sync is still None.
C16_Witness ==
    /\ last.called /\ last.info.empty /\ last.update_avatar
    /\ IsNone(puppet.last_info_sync) /\ IsNone(puppet.name) /\ IsNone(hs.name)

\* C19: in every state of a run of calls that do not overlap, whenever name_set
\* is true the homeserver holds name as the display name last pushed with
\* success, and whenever avatar_set is true it holds photo_mxc as the avatar
\* last pushed with success.
C19_AppliedMeansPushed ==
    /\ puppet.name_set => hs.name = puppet.name
    /\ puppet.avatar_set => hs.avatar = puppet.photo_mxc

----------------------------------------------------------------------------
\* Claims about the identifier mapper

\* C17: get_id_from_mxid(get_mxid_from_id(k)) = k for every remote key k of up
\* to MaxLen characters, characters of the template's prefix and suffix
\* included.
C17_RoundTrip ==
    mapper.pc = "parsed" => mapper.parsed = Some(mapper.li_member_urn)

\* C17 witness: the round trip of a key that ends like the suffix.
C17_Witness ==
    /\ mapper.pc = "parsed" /\ mapper.li_member_urn = <<"a", ":", "h">>
    /\ mapper.mxid = <<"@", "l", "_", "a", ":", "h", ":", "h">>

====
